---- MODULE Spec2Model ----
(***************************************************************************)
(* Live capture and analysis orchestration of FraudGuard-AI's frontend.    *)
(*                                                                         *)
(*   Spec          LivePage (pages/LivePage.tsx) on top of the axios       *)
(*                 service (services/api.ts): webcam session, voice        *)
(*                 recording with its timers, analysis requests.           *)
(*   SpecCapture   the WebcamCapture component                             *)
(*                 (components/capture/WebcamCapture.tsx).                 *)
(*   SpecDeepfake  DeepfakePage: file selection, webcam capture, analysis. *)
(*   SpecDisplay   a 2xx response body stored as the result and rendered   *)
(*                 by AnalysisResult / ResultPanel.                        *)
(*   SpecWebcam, SpecVoice, SpecCancel, SpecDevices                        *)
(*                 LivePage restricted to one of its flows, with teardown, *)
(*                 cancelRequests or the microphone list added.            *)
(*                                                                         *)
(* One step is one turn of the browser's event loop: a click handler, a    *)
(* timer callback, a media event, or the continuation of an await.  React  *)
(* state (useState) is only written while the component is mounted; refs,  *)
(* timers, promises and device streams outlive the component.              *)
(***************************************************************************)
EXTENDS Integers, Sequences, FiniteSets, TLC

\* ---------------------------------------------------------------- bounds
MaxReq == 3       \* analysis requests submitted in one run
MaxHandles == 2   \* getUserMedia calls issued and not rejected in one run
MaxFaults == 1    \* failures the environment injects in one run
MaxOps == 2       \* WebcamCapture: async steps awaiting their callback

\* ------------------------------------------------------------- constants
AutoStopTicks == 3    \* LivePage: `if (prev >= 3)` in the 1 s interval

NoError == "null"
VideoNotReadyMsg == "Video not ready. Please wait a moment."
ZeroDimsMsg == "Video dimensions are zero. Camera may not be working."
PlayFailedMsg == "Failed to play video stream"
WebcamFailedMsg == "Failed to access webcam. Please grant camera permissions."
MicFailedMsg == "Failed to access microphone. Please grant microphone permissions."
CanvasFailedMsg == "Failed to get canvas context"
BlobFailedMsg == "Failed to create blob from canvas"
TimeoutMsg == "Request timeout. Please try again."
CancelledMsg == "Request cancelled"
ConnectMsg == "Unable to connect to server. Please check your connection."
RequestFailedMsg == "Request failed. Please try again."
GenericServerMsg == "An error occurred"
ServerDetail == "Invalid file type"
CamDeniedMsg == "Camera permission denied. Please allow camera access and try again."
CamNotFoundMsg == "No camera found. Please connect a camera and try again."
CamBusyMsg == "Camera is already in use by another application."
CamFailedMsg == "Failed to access webcam. Please check your camera connection."
LoadDevicesFailedMsg == "Failed to load camera devices"

VARIABLES
  \* LivePage, React state
  mounted, mode, loading, result, error,
  webcamActive, webcamReady, recording, recordingTime,
  \* LivePage, refs
  streamRef, mediaRecorderRef, audioChunksRef, recordingIntervalRef,
  \* LivePage, the <video> element and the stream-attach effect
  videoSrc, videoState, effectDep, readyTimers,
  \* browser: device streams, recorders, timers, pending promises
  handles, recorders, intervals, timeouts, gumCam, gumMic, blobPending,
  \* services/api.ts
  reqs, cancelTokenSource,
  \* number of environment failures injected so far
  faults,
  \* WebcamCapture component: React state, pending async steps, permission
  wcMounted, wcIsStreaming, wcStream, wcDevices, wcSelectedDevice, wcError,
  wcOps, wcLabels, wcDevicesLabelled,
  \* LivePage, the microphone list loaded by the mount effect (lines 70-85)
  audioDevices,
  \* one 2xx response on its way to the screen: the component that shows it,
  \* the body received, the result state, what is rendered, console output
  rsPanel, rsBody, rsResult, rsView, rsLog,
  \* DeepfakePage: React state, its requests, captures awaiting their blob
  dfMode, dfFile, dfIsFromWebcam, dfLoading, dfResult, dfReqs, dfCaptures

ui == <<mode, loading, result, error, webcamActive, webcamReady, recording, recordingTime>>
refs == <<streamRef, mediaRecorderRef, audioChunksRef, recordingIntervalRef>>
video == <<videoSrc, videoState, effectDep, readyTimers>>
browser == <<handles, recorders, intervals, timeouts, gumCam, gumMic, blobPending>>
net == <<reqs, cancelTokenSource>>
capture == <<wcMounted, wcIsStreaming, wcStream, wcDevices, wcSelectedDevice, wcError,
             wcOps, wcLabels, wcDevicesLabelled>>
display == <<rsPanel, rsBody, rsResult, rsView, rsLog>>
deepfake == <<dfMode, dfFile, dfIsFromWebcam, dfLoading, dfResult, dfReqs, dfCaptures>>
livePage == <<mounted, ui, refs, video, browser, net, faults, audioDevices>>
\* What no handler of LivePage writes.
offPage == <<capture, display, deepfake>>
vars == <<mounted, ui, refs, video, browser, net, faults, audioDevices, offPage>>

\* ------------------------------------------------------------ services/api.ts

\* The rejection axios produces for each way a POST can fail.
AxiosError(raw) ==
  [isCancel |-> raw = "cancel",
   code |-> CASE raw = "timeout" -> "ECONNABORTED"
              [] raw = "network" -> "ERR_NETWORK"
              [] raw = "cancel" -> "ERR_CANCELED"
              [] OTHER -> "ERR_BAD_RESPONSE",
   hasResponse |-> raw \in {"http_detail", "http_plain"},
   hasRequest |-> raw \in {"timeout", "network", "http_detail", "http_plain"},
   detail |-> IF raw = "http_detail" THEN ServerDetail ELSE "",
   message |-> raw]

\* `new Error(msg)`: no __CANCEL__ mark, no code, no response, no request.
PlainError(msg) ==
  [isCancel |-> FALSE, code |-> "", hasResponse |-> FALSE,
   hasRequest |-> FALSE, detail |-> "", message |-> msg]

\* api.interceptors.response.use(..., rejected)
responseInterceptor(e) ==
  IF e.code = "ECONNABORTED" THEN PlainError(TimeoutMsg)
  ELSE IF e.isCancel THEN PlainError(CancelledMsg)
  ELSE e

\* handleError with the server's detail dropped for the generic text.
handleErrorGeneric(e) ==
  IF e.isCancel THEN PlainError(CancelledMsg)
  ELSE IF e.hasResponse THEN PlainError(GenericServerMsg)
  ELSE IF e.hasRequest THEN PlainError(ConnectMsg)
  ELSE PlainError(RequestFailedMsg)

\* handleError: the Error thrown to the caller of analyzeImage/analyzeAudio.
handleError(e) ==
  IF e.isCancel THEN PlainError(CancelledMsg)
  ELSE IF e.hasResponse
    THEN PlainError(IF e.detail # "" THEN e.detail ELSE GenericServerMsg)
  ELSE IF e.hasRequest THEN PlainError(ConnectMsg)
  ELSE PlainError(RequestFailedMsg)

\* What the catch block of analyzeX throws for a failed POST.
analyzeRejection(raw) == handleError(responseInterceptor(AxiosError(raw)))

RawFailures == {"http_detail", "http_plain", "timeout", "network"}

Pending(rs) == {i \in DOMAIN rs : rs[i].status = "pending"}

\* getCancelToken + api.post: the new request owns the module's token source;
\* the source of an earlier request is overwritten, not cancelled.
submit(rs, kind, empty, rec) ==
  Append(rs, [kind |-> kind, status |-> "pending", empty |-> empty,
              rec |-> rec, cancelled |-> FALSE])

\* ------------------------------------------------------------ React helpers

\* A useState setter: ignored once the component is unmounted.
St(old, new) == IF mounted THEN new ELSE old

\* -------------------------------------------------------- browser helpers
CloseHandle(hs, h) == IF h = 0 THEN hs ELSE [hs EXCEPT ![h].open = FALSE]
OpenHandles(kind) == {h \in DOMAIN handles : handles[h].kind = kind /\ handles[h].open}
CanAcquire == Len(handles) + gumCam + gumMic < MaxHandles

\* The outcomes the environment may pick: failures are drawn only while the
\* failure budget lasts.
MayFail == IF faults < MaxFaults THEN BOOLEAN ELSE {TRUE}
Fault(ok) == faults' = IF ok THEN faults ELSE faults + 1

\* The <video> element is rendered only in webcam mode with webcamActive.
VideoExists(m, md, wa) == m /\ md = "webcam" /\ wa

\* Render + the effect of lines 34-67 (deps [streamRef.current]).  `src` and
\* `st` are the element's source and state as the handler left them.
\* A render happens only when some React state changed; the effect runs
\* after a render whose streamRef.current differs from the last render's.
RenderEffect(src, st) ==
  LET rendered == mounted' /\ ui' # ui
      existed == VideoExists(mounted, mode, webcamActive)
      exists == VideoExists(mounted', mode', webcamActive')
      runs == rendered /\ streamRef' # effectDep
      keepSrc == IF existed /\ exists THEN src ELSE 0
      keepSt == IF existed /\ exists THEN st ELSE "none"
  IN /\ effectDep' = IF rendered THEN streamRef' ELSE effectDep
     /\ IF runs /\ exists /\ streamRef' # 0
          THEN videoSrc' = streamRef' /\ videoState' = "attached"
          ELSE videoSrc' = keepSrc /\ videoState' = keepSt

Render == RenderEffect(videoSrc, videoState)

\* ------------------------------------------------------------------- Init
\* The useState/useRef initial values of LivePage (lines 13-31).
LivePageInitial ==
  /\ mode = "webcam" /\ loading = FALSE /\ result = 0
  /\ error = NoError /\ webcamActive = FALSE /\ webcamReady = FALSE
  /\ recording = FALSE /\ recordingTime = 0
  /\ streamRef = 0 /\ mediaRecorderRef = 0 /\ audioChunksRef = 0
  /\ recordingIntervalRef = 0
  /\ videoSrc = 0 /\ videoState = "none" /\ effectDep = 0 /\ readyTimers = 0
  /\ recorders = <<>> /\ intervals = {} /\ timeouts = {}
  /\ gumCam = 0 /\ gumMic = 0 /\ blobPending = 0
  /\ reqs = <<>> /\ cancelTokenSource = 0

\* WebcamCapture not rendered.
CaptureAbsent ==
  /\ wcMounted = FALSE /\ wcIsStreaming = FALSE /\ wcStream = 0
  /\ wcDevices = 0 /\ wcSelectedDevice = 0 /\ wcError = NoError
  /\ wcOps = <<>> /\ wcLabels = FALSE /\ wcDevicesLabelled = FALSE

\* JSON values of a numeric field: a number (in hundredths), a value of
\* another type, or the field left out.
Num(n) == [type |-> "number", value |-> n]
NotNum == [type |-> "string", value |-> 0]
Undefined == [type |-> "undefined", value |-> 0]
NaN == [type |-> "NaN", value |-> 0]

\* `null`, as a response body and as the value of the result state.
NoBody ==
  [shape |-> "null", risk_score |-> Undefined, prediction |-> "missing",
   confidence |-> Undefined, explanation |-> "missing"]

\* Nothing rendered in the result area.
NoView == [status |-> "none", label |-> "", color |-> "", bar |-> "", width |-> NaN]

\* No response is being shown.
DisplayAbsent ==
  /\ rsPanel = "none" /\ rsBody = NoBody /\ rsResult = NoBody
  /\ rsView = NoView /\ rsLog = {}

\* DeepfakePage not rendered.
DeepfakeAbsent ==
  /\ dfMode = "upload" /\ dfFile = "null" /\ dfIsFromWebcam = FALSE
  /\ dfLoading = FALSE /\ dfResult = 0 /\ dfReqs = <<>> /\ dfCaptures = 0

\* LivePage just mounted: the effect of lines 70-85 has called
\* getAudioDevices().
Init ==
  /\ CaptureAbsent /\ DisplayAbsent /\ DeepfakeAbsent
  /\ faults = 0 /\ handles = <<>>
  /\ mounted = TRUE /\ LivePageInitial
  /\ audioDevices = "pending"

\* DeepfakePage in webcam mode, WebcamCapture just mounted: its initDevices
\* effect has issued the permission probe (lines 36-47).
InitCapture ==
  /\ mounted = FALSE /\ LivePageInitial /\ audioDevices = "none"
  /\ DisplayAbsent /\ DeepfakeAbsent
  /\ faults = 0 /\ handles = <<>>
  /\ wcMounted = TRUE /\ wcIsStreaming = FALSE /\ wcStream = 0
  /\ wcDevices = 0 /\ wcSelectedDevice = 0 /\ wcError = NoError
  /\ wcOps = <<[op |-> "probe", sel |-> 0, stream |-> 0]>> /\ wcLabels = FALSE
  /\ wcDevicesLabelled = FALSE

\* ------------------------------------------------------- LivePage: webcam

\* Mode button "Live Webcam" (lines 306-311).
SelectWebcamMode ==
  /\ mounted
  /\ mode' = "webcam" /\ result' = 0 /\ error' = NoError
  /\ UNCHANGED <<mounted, loading, webcamActive, webcamReady, recording, recordingTime>>
  /\ UNCHANGED <<refs, readyTimers, browser, net, faults>>
  /\ Render
  /\ UNCHANGED <<audioDevices, offPage>>

\* Mode button "Live Voice" (lines 325-331): stopWebcam() included.
SelectVoiceMode ==
  /\ mounted
  /\ mode' = "voice" /\ result' = 0 /\ error' = NoError
  /\ handles' = CloseHandle(handles, streamRef)
  /\ streamRef' = 0 /\ webcamActive' = FALSE /\ webcamReady' = FALSE
  /\ UNCHANGED <<mounted, loading, recording, recordingTime>>
  /\ UNCHANGED <<mediaRecorderRef, audioChunksRef, recordingIntervalRef, readyTimers>>
  /\ UNCHANGED <<recorders, intervals, timeouts, gumCam, gumMic, blobPending, net, faults>>
  /\ Render
  /\ UNCHANGED <<audioDevices, offPage>>

\* startWebcam up to `await getUserMedia` (lines 88-102).  The button is
\* shown while !webcamActive, which stays false until the promise resolves.
StartWebcam ==
  /\ mounted /\ mode = "webcam" /\ ~webcamActive
  /\ CanAcquire
  /\ error' = NoError /\ webcamReady' = FALSE
  /\ gumCam' = gumCam + 1
  /\ UNCHANGED <<mounted, mode, loading, result, webcamActive, recording, recordingTime>>
  /\ UNCHANGED <<refs, readyTimers, handles, recorders, intervals, timeouts, gumMic, blobPending, net, faults>>
  /\ Render
  /\ UNCHANGED <<audioDevices, offPage>>

\* getUserMedia resolved: lines 104-108.
GumCamResolve ==
  /\ gumCam > 0
  /\ gumCam' = gumCam - 1
  /\ handles' = Append(handles, [kind |-> "camera", dev |-> 0, open |-> TRUE])
  /\ streamRef' = Len(handles) + 1
  /\ webcamActive' = St(webcamActive, TRUE)
  /\ UNCHANGED <<mounted, mode, loading, result, error, webcamReady, recording, recordingTime>>
  /\ UNCHANGED <<mediaRecorderRef, audioChunksRef, recordingIntervalRef, readyTimers>>
  /\ UNCHANGED <<recorders, intervals, timeouts, gumMic, blobPending, net, faults>>
  /\ Render
  /\ UNCHANGED <<audioDevices, offPage>>

\* getUserMedia rejected: the catch of lines 110-114, stopWebcam() included.
GumCamReject ==
  /\ gumCam > 0 /\ faults < MaxFaults
  /\ faults' = faults + 1
  /\ gumCam' = gumCam - 1
  /\ error' = St(error, WebcamFailedMsg)
  /\ handles' = CloseHandle(handles, streamRef)
  /\ streamRef' = 0
  /\ webcamActive' = St(webcamActive, FALSE) /\ webcamReady' = St(webcamReady, FALSE)
  /\ UNCHANGED <<mounted, mode, loading, result, recording, recordingTime>>
  /\ UNCHANGED <<mediaRecorderRef, audioChunksRef, recordingIntervalRef, readyTimers>>
  /\ UNCHANGED <<recorders, intervals, timeouts, gumMic, blobPending, net>>
  /\ Render
  /\ UNCHANGED <<audioDevices, offPage>>

\* "Stop Webcam" button (line 385) -> stopWebcam (lines 118-125).
StopWebcam ==
  /\ mounted /\ mode = "webcam" /\ webcamActive
  /\ handles' = CloseHandle(handles, streamRef)
  /\ streamRef' = 0 /\ webcamActive' = FALSE /\ webcamReady' = FALSE
  /\ UNCHANGED <<mounted, mode, loading, result, error, recording, recordingTime>>
  /\ UNCHANGED <<mediaRecorderRef, audioChunksRef, recordingIntervalRef, readyTimers>>
  /\ UNCHANGED <<recorders, intervals, timeouts, gumCam, gumMic, blobPending, net, faults>>
  /\ Render
  /\ UNCHANGED <<audioDevices, offPage>>

\* video.onloadedmetadata (lines 39-60): play(), then the 500 ms timer.
VideoLoadedMetadata ==
  /\ videoSrc # 0 /\ videoState = "attached" /\ handles[videoSrc].open
  /\ \E playOk \in MayFail :
       /\ Fault(playOk)
       /\ readyTimers' = IF playOk THEN readyTimers + 1 ELSE readyTimers
       /\ error' = IF playOk THEN error ELSE St(error, PlayFailedMsg)
  /\ UNCHANGED <<mounted, mode, loading, result, webcamActive, webcamReady, recording, recordingTime>>
  /\ UNCHANGED <<refs, browser, net>>
  /\ RenderEffect(videoSrc, "loaded")
  /\ UNCHANGED <<audioDevices, offPage>>

\* The 500 ms timer of lines 47-54.
\* ReadyTimer as a capture timer: when it fires on a playing video it also
\* takes a frame, with no click.
ReadyTimerCaptures ==
  /\ readyTimers > 0
  /\ readyTimers' = readyTimers - 1
  /\ \E dimsOk \in MayFail :
       /\ Fault(dimsOk)
       /\ IF VideoExists(mounted, mode, webcamActive) /\ videoSrc # 0 /\ dimsOk
            THEN /\ webcamReady' = St(webcamReady, TRUE) /\ error' = error
                 /\ blobPending' = IF Len(reqs) + blobPending < MaxReq
                                    THEN blobPending + 1 ELSE blobPending
            ELSE /\ webcamReady' = webcamReady /\ error' = St(error, ZeroDimsMsg)
                 /\ blobPending' = blobPending
  /\ UNCHANGED <<mounted, mode, loading, result, webcamActive, recording, recordingTime>>
  /\ UNCHANGED <<refs, handles, recorders, intervals, timeouts, gumCam, gumMic, net>>
  /\ Render
  /\ UNCHANGED <<audioDevices, offPage>>

ReadyTimer ==
  /\ readyTimers > 0
  /\ readyTimers' = readyTimers - 1
  /\ \E dimsOk \in MayFail :
       /\ Fault(dimsOk)
       /\ IF VideoExists(mounted, mode, webcamActive) /\ videoSrc # 0 /\ dimsOk
            THEN webcamReady' = St(webcamReady, TRUE) /\ error' = error
            ELSE webcamReady' = webcamReady /\ error' = St(error, ZeroDimsMsg)
  /\ UNCHANGED <<mounted, mode, loading, result, webcamActive, recording, recordingTime>>
  /\ UNCHANGED <<refs, browser, net>>
  /\ Render
  /\ UNCHANGED <<audioDevices, offPage>>


\* captureFrame up to `await new Promise(canvas.toBlob)` (lines 128-174).
\* The button is disabled while loading || !webcamReady (line 379).
Committed ==
  Len(reqs) + blobPending + gumMic
    + Cardinality({r \in DOMAIN recorders :
                     recorders[r].state = "recording" \/ recorders[r].stopQueued})

\* What captureFrame finds: readyState !== 4 (line 137), a zero dimension
\* (line 142), no 2d context (line 158), or a frame it can draw.
FrameOutcomes == {"ok", "not_ready", "zero_dims", "no_context"}

CaptureFrame ==
  /\ mounted /\ mode = "webcam" /\ webcamActive /\ ~loading /\ webcamReady
  /\ Committed < MaxReq
  /\ \E frame \in (IF faults < MaxFaults THEN FrameOutcomes ELSE {"ok"}) :
       /\ Fault(frame = "ok")
       /\ CASE frame = "not_ready" ->
                 error' = VideoNotReadyMsg /\ UNCHANGED <<loading, blobPending>>
            [] frame = "zero_dims" ->
                 error' = ZeroDimsMsg /\ UNCHANGED <<loading, blobPending>>
            [] frame = "no_context" ->
                 error' = CanvasFailedMsg /\ UNCHANGED <<loading, blobPending>>
            [] OTHER ->
                 error' = NoError /\ loading' = TRUE /\ blobPending' = blobPending + 1
  /\ UNCHANGED <<mounted, mode, result, webcamActive, webcamReady, recording, recordingTime>>
  /\ UNCHANGED <<refs, readyTimers, handles, recorders, intervals, timeouts, gumCam, gumMic, net>>
  /\ Render
  /\ UNCHANGED <<audioDevices, offPage>>

\* canvas.toBlob called back (lines 166-181): analyzeImage(file, true) on a
\* blob, the catch/finally of lines 185-190 on null.
BlobDone ==
  /\ blobPending > 0
  /\ blobPending' = blobPending - 1
  /\ \E blobOk \in MayFail :
       /\ Fault(blobOk)
       /\ IF blobOk
            THEN /\ reqs' = submit(reqs, "image", FALSE, 0)
                 /\ cancelTokenSource' = Len(reqs) + 1
                 /\ UNCHANGED <<error, loading>>
            ELSE /\ error' = St(error, BlobFailedMsg)
                 /\ loading' = St(loading, FALSE)
                 /\ UNCHANGED net
  /\ UNCHANGED <<mounted, mode, result, webcamActive, webcamReady, recording, recordingTime>>
  /\ UNCHANGED <<refs, readyTimers, handles, recorders, intervals, timeouts, gumCam, gumMic>>
  /\ Render
  /\ UNCHANGED <<audioDevices, offPage>>

\* -------------------------------------------------------- LivePage: voice

\* startRecording up to `await getUserMedia` (lines 194-200).  The button is
\* shown while !recording and disabled while loading (lines 425-428).
StartRecording ==
  /\ mounted /\ mode = "voice" /\ ~recording /\ ~loading
  /\ CanAcquire /\ Committed < MaxReq
  /\ gumMic' = gumMic + 1
  /\ UNCHANGED <<mounted, ui, refs, video, handles, recorders, intervals, timeouts, gumCam, blobPending, net, faults>>
  /\ UNCHANGED <<audioDevices, offPage>>

\* getUserMedia resolved and MediaRecorder constructed (lines 202-241).
GumMicResolve ==
  /\ gumMic > 0
  /\ gumMic' = gumMic - 1
  /\ handles' = Append(handles, [kind |-> "microphone", dev |-> 0, open |-> TRUE])
  /\ LET r == Len(recorders) + 1 IN
       /\ recorders' = Append(recorders, [state |-> "recording", stopQueued |-> FALSE,
                                          stream |-> Len(handles) + 1])
       /\ mediaRecorderRef' = r
       /\ recordingIntervalRef' = r
       /\ intervals' = intervals \cup {r}
       /\ timeouts' = timeouts \cup {r}
  /\ audioChunksRef' = 0
  /\ recording' = St(recording, TRUE)
  /\ recordingTime' = St(recordingTime, 0)
  /\ error' = St(error, NoError)
  /\ UNCHANGED <<mounted, mode, loading, result, webcamActive, webcamReady>>
  /\ UNCHANGED <<streamRef, readyTimers, gumCam, blobPending, net, faults>>
  /\ Render
  /\ UNCHANGED <<audioDevices, offPage>>

\* getUserMedia resolved but `new MediaRecorder(stream, {mimeType})` throws
\* NotSupportedError: the catch of lines 243-246 runs with the stream open.
GumMicUnsupported ==
  /\ gumMic > 0 /\ faults < MaxFaults
  /\ faults' = faults + 1
  /\ gumMic' = gumMic - 1
  /\ handles' = Append(handles, [kind |-> "microphone", dev |-> 0, open |-> TRUE])
  /\ error' = St(error, MicFailedMsg)
  /\ UNCHANGED <<mounted, mode, loading, result, webcamActive, webcamReady, recording, recordingTime>>
  /\ UNCHANGED <<refs, readyTimers, recorders, intervals, timeouts, gumCam, blobPending, net>>
  /\ Render
  /\ UNCHANGED <<audioDevices, offPage>>

\* getUserMedia rejected: the catch of lines 243-246.
GumMicReject ==
  /\ gumMic > 0 /\ faults < MaxFaults
  /\ faults' = faults + 1
  /\ gumMic' = gumMic - 1
  /\ error' = St(error, MicFailedMsg)
  /\ UNCHANGED <<mounted, mode, loading, result, webcamActive, webcamReady, recording, recordingTime>>
  /\ UNCHANGED <<refs, readyTimers, handles, recorders, intervals, timeouts, gumCam, blobPending, net>>
  /\ Render
  /\ UNCHANGED <<audioDevices, offPage>>

\* stopRecording (lines 250-260).  MediaRecorder.stop() makes the recorder
\* inactive at once and queues its dataavailable and stop events.
stopRecording ==
  IF mediaRecorderRef # 0 /\ recorders[mediaRecorderRef].state = "recording"
    THEN /\ recorders' = [recorders EXCEPT ![mediaRecorderRef] =
                            [@ EXCEPT !.state = "inactive", !.stopQueued = TRUE]]
         /\ recording' = St(recording, FALSE)
         /\ intervals' = intervals \ {recordingIntervalRef}
         /\ recordingIntervalRef' = 0
    ELSE UNCHANGED <<recorders, recording, intervals, recordingIntervalRef>>

\* "Stop Early" button (line 441).
StopRecordingClick ==
  /\ mounted /\ mode = "voice" /\ recording
  /\ stopRecording
  /\ UNCHANGED <<mounted, mode, loading, result, error, webcamActive, webcamReady, recordingTime>>
  /\ UNCHANGED <<streamRef, mediaRecorderRef, audioChunksRef, readyTimers>>
  /\ UNCHANGED <<handles, timeouts, gumCam, gumMic, blobPending, net, faults>>
  /\ Render
  /\ UNCHANGED <<audioDevices, offPage>>

\* One firing of the 1 s interval (lines 227-235).  The updater given to
\* setRecordingTime runs with the current state; on an unmounted component
\* React may or may not invoke it.
IntervalTick(i) ==
  /\ i \in intervals
  /\ \E run \in (IF mounted THEN {TRUE} ELSE BOOLEAN) :
       IF run /\ recordingTime >= AutoStopTicks
         THEN /\ stopRecording
              /\ recordingTime' = St(recordingTime, AutoStopTicks + 1)
       ELSE IF run
         THEN /\ recordingTime' = St(recordingTime, recordingTime + 1)
              /\ UNCHANGED <<recorders, recording, intervals, recordingIntervalRef>>
       ELSE UNCHANGED <<recordingTime, recorders, recording, intervals, recordingIntervalRef>>
  /\ UNCHANGED <<mounted, mode, loading, result, error, webcamActive, webcamReady>>
  /\ UNCHANGED <<streamRef, mediaRecorderRef, audioChunksRef, readyTimers>>
  /\ UNCHANGED <<handles, timeouts, gumCam, gumMic, blobPending, net, faults>>
  /\ Render
  /\ UNCHANGED <<audioDevices, offPage>>

\* The 4 s timeout armed at the start of recording t (lines 237-241).
TimeoutFire(t) ==
  /\ t \in timeouts
  /\ timeouts' = timeouts \ {t}
  /\ stopRecording
  /\ UNCHANGED <<mounted, mode, loading, result, error, webcamActive, webcamReady, recordingTime>>
  /\ UNCHANGED <<streamRef, mediaRecorderRef, audioChunksRef, readyTimers>>
  /\ UNCHANGED <<handles, gumCam, gumMic, blobPending, net, faults>>
  /\ Render
  /\ UNCHANGED <<audioDevices, offPage>>

\* The recorder's queued events: ondataavailable (lines 208-212), then
\* onstop up to `await analyzeRecording` -> `await analyzeAudio` (214-216,
\* 263-277).
RecorderStopEvent(r) ==
  /\ r \in DOMAIN recorders /\ recorders[r].stopQueued
  /\ recorders' = [recorders EXCEPT ![r].stopQueued = FALSE]
  /\ \E dataSize \in {0, 1} :
       LET chunks == IF dataSize > 0 THEN audioChunksRef + 1 ELSE audioChunksRef IN
         /\ audioChunksRef' = chunks
         /\ reqs' = submit(reqs, "audio", chunks = 0, r)
  /\ cancelTokenSource' = Len(reqs) + 1
  /\ loading' = St(loading, TRUE)
  /\ error' = St(error, NoError)
  /\ UNCHANGED <<mounted, mode, result, webcamActive, webcamReady, recording, recordingTime>>
  /\ UNCHANGED <<streamRef, mediaRecorderRef, recordingIntervalRef, readyTimers>>
  /\ UNCHANGED <<handles, intervals, timeouts, gumCam, gumMic, blobPending, faults>>
  /\ Render
  /\ UNCHANGED <<audioDevices, offPage>>

\* ------------------------------------------------- requests settling

\* analysisSettled with the session's result reset in the catch block.
analysisSettledClearsResult(i, raw) ==
  [result |-> IF raw = "ok" THEN i ELSE 0,
   error |-> IF raw = "ok" THEN error ELSE analyzeRejection(raw).message,
   loading |-> FALSE]

\* analysisSettled with setResult also reached when the call has thrown.
analysisSettledWritesOnFailure(i, raw) ==
  [result |-> i,
   error |-> IF raw = "ok" THEN error ELSE analyzeRejection(raw).message,
   loading |-> FALSE]

\* analysisSettled with setLoading(false) moved from the finally block to
\* the end of the try block.
analysisSettledNoFinally(i, raw) ==
  LET msg == analyzeRejection(raw).message
  IN [result |-> IF raw = "ok" THEN i ELSE result,
      error |-> IF raw = "ok" THEN error ELSE msg,
      loading |-> IF raw = "ok" THEN FALSE ELSE loading]

\* try/catch/finally around the awaited analysis call, for request i with
\* outcome raw (captureFrame lines 181-190, analyzeRecording lines 277-284).
analysisSettled(i, raw) ==
  LET msg == analyzeRejection(raw).message
      fallback == IF reqs[i].kind = "image" THEN "Failed to analyze frame"
                  ELSE "Failed to analyze audio"
  IN [result |-> IF raw = "ok" THEN i ELSE result,
      error |-> IF raw = "ok" THEN error
                ELSE IF msg = "" THEN fallback ELSE msg,
      loading |-> FALSE]

\* The ways the POST of request i can end: a cancelled token rejects it,
\* otherwise a 2xx, a non-2xx, the 60 s timeout or a connection failure.
Outcomes(i) ==
  IF reqs[i].cancelled THEN {"cancel"}
  ELSE IF faults < MaxFaults THEN {"ok"} \cup RawFailures
  ELSE {"ok"}

\* The POST of request i settles; for a recording, onstop then stops the
\* tracks of its stream (line 217).
SettleWith(i, raw) ==
  /\ i \in Pending(reqs)
  /\ raw \in Outcomes(i)
  /\ LET s == analysisSettled(i, raw) IN
       /\ Fault(raw \in {"ok", "cancel"})
       /\ reqs' = [reqs EXCEPT ![i].status =
                     IF raw = "ok" THEN "fulfilled" ELSE "failed"]
       /\ result' = St(result, s.result)
       /\ error' = St(error, s.error)
       /\ loading' = St(loading, s.loading)
  /\ handles' = IF reqs[i].kind = "audio"
                  THEN CloseHandle(handles, recorders[reqs[i].rec].stream)
                  ELSE handles
  /\ UNCHANGED <<mounted, mode, webcamActive, webcamReady, recording, recordingTime>>
  /\ UNCHANGED <<refs, readyTimers, recorders, intervals, timeouts, gumCam, gumMic, blobPending>>
  /\ UNCHANGED cancelTokenSource
  /\ Render
  /\ UNCHANGED <<audioDevices, offPage>>

Settle(i) == \E raw \in {"ok", "cancel"} \cup RawFailures : SettleWith(i, raw)

\* cancelRequests (api.ts lines 62-67): cancels the token source of the most
\* recent request only.
CancelRequests ==
  /\ cancelTokenSource # 0
  /\ reqs' = IF cancelTokenSource \in Pending(reqs)
               THEN [reqs EXCEPT ![cancelTokenSource].cancelled = TRUE]
               ELSE reqs
  /\ cancelTokenSource' = 0
  /\ UNCHANGED <<mounted, ui, refs, video, browser, faults>>
  /\ UNCHANGED <<audioDevices, offPage>>

\* ------------------------------------------------------------- teardown

\* The cleanup of lines 288-295: stopWebcam() and clearInterval of the
\* interval in the ref; the recorder and the 4 s timeout are left alone.
Unmount ==
  /\ mounted
  /\ mounted' = FALSE
  /\ handles' = CloseHandle(handles, streamRef)
  /\ streamRef' = 0
  /\ intervals' = intervals \ {recordingIntervalRef}
  /\ UNCHANGED <<ui, mediaRecorderRef, audioChunksRef, recordingIntervalRef, readyTimers>>
  /\ UNCHANGED <<recorders, timeouts, gumCam, gumMic, blobPending, net, faults>>
  /\ Render
  /\ UNCHANGED <<audioDevices, offPage>>

\* getAudioDevices (lines 70-85) after `await enumerateDevices()`, or after
\* the TypeError of `navigator.mediaDevices` being undefined (a page served
\* outside a secure context): the catch of lines 79-81 writes to the console
\* only.
AudioDevicesAnswered ==
  /\ audioDevices = "pending"
  /\ \E ok \in MayFail :
       /\ Fault(ok)
       /\ audioDevices' = IF ok THEN St(audioDevices, "loaded") ELSE "failed"
  /\ UNCHANGED <<mounted, ui, refs, readyTimers, browser, net, offPage>>
  /\ Render

\* LivePage while mounted: every button, timer, media event and request.
Next ==
  \/ SelectWebcamMode
  \/ SelectVoiceMode
  \/ StartWebcam
  \/ GumCamResolve
  \/ GumCamReject
  \/ StopWebcam
  \/ VideoLoadedMetadata
  \/ ReadyTimer
  \/ CaptureFrame
  \/ BlobDone
  \/ StartRecording
  \/ GumMicResolve
  \/ GumMicUnsupported
  \/ GumMicReject
  \/ StopRecordingClick
  \/ \E i \in intervals : IntervalTick(i)
  \/ \E t \in timeouts : TimeoutFire(t)
  \/ \E r \in DOMAIN recorders : RecorderStopEvent(r)
  \/ \E i \in DOMAIN reqs : Settle(i)

Spec == Init /\ [][Next]_vars

\* LivePage used for its webcam only, up to and after teardown.
NextWebcam ==
  \/ SelectWebcamMode
  \/ SelectVoiceMode
  \/ StartWebcam
  \/ GumCamResolve
  \/ GumCamReject
  \/ StopWebcam
  \/ VideoLoadedMetadata
  \/ ReadyTimer
  \/ CaptureFrame
  \/ BlobDone
  \/ \E i \in DOMAIN reqs : Settle(i)
  \/ Unmount

SpecWebcam == Init /\ [][NextWebcam]_vars

\* LivePage used for voice only, up to and after teardown.
NextVoice ==
  \/ SelectWebcamMode
  \/ SelectVoiceMode
  \/ StartRecording
  \/ GumMicResolve
  \/ GumMicUnsupported
  \/ GumMicReject
  \/ StopRecordingClick
  \/ \E i \in intervals : IntervalTick(i)
  \/ \E t \in timeouts : TimeoutFire(t)
  \/ \E r \in DOMAIN recorders : RecorderStopEvent(r)
  \/ \E i \in DOMAIN reqs : Settle(i)
  \/ Unmount

SpecVoice == Init /\ [][NextVoice]_vars

\* The webcam flow with a caller of the exported cancelRequests.
NextCancel ==
  \/ SelectWebcamMode
  \/ SelectVoiceMode
  \/ StartWebcam
  \/ GumCamResolve
  \/ GumCamReject
  \/ StopWebcam
  \/ VideoLoadedMetadata
  \/ ReadyTimer
  \/ CaptureFrame
  \/ BlobDone
  \/ \E i \in DOMAIN reqs : Settle(i)
  \/ CancelRequests

SpecCancel == Init /\ [][NextCancel]_vars

\* LivePage used for voice, with the loading of the microphone list.
NextDevices ==
  \/ AudioDevicesAnswered
  \/ SelectWebcamMode
  \/ SelectVoiceMode
  \/ StartRecording
  \/ GumMicResolve
  \/ GumMicUnsupported
  \/ GumMicReject
  \/ StopRecordingClick
  \/ \E t \in timeouts : TimeoutFire(t)
  \/ \E r \in DOMAIN recorders : RecorderStopEvent(r)
  \/ \E i \in DOMAIN reqs : Settle(i)

SpecDevices == Init /\ [][NextDevices]_vars

\* ------------------------------------------------- WebcamCapture component
\* components/capture/WebcamCapture.tsx, lines 9-202, as rendered by
\* DeepfakePage in webcam mode.

live == <<mounted, ui, refs, video, recorders, intervals, timeouts, gumCam, gumMic,
          blobPending, net, audioDevices, display, deepfake>>

\* The cameras of the machine, in enumerateDevices order.
Cameras ==
  << [deviceId |-> 1, label |-> "OBS Virtual Camera"],
     [deviceId |-> 2, label |-> "Integrated Webcam"] >>

\* label.toLowerCase().includes(needle), over the labels of Cameras.
LowerIncludes(label, needle) ==
  CASE label = "OBS Virtual Camera" -> needle \in {"obs", "virtual", "camera"}
    [] label = "Integrated Webcam" -> needle \in {"integrated", "webcam"}
    [] OTHER -> FALSE

\* enumerateDevices(): labels are blank until camera permission was granted.
enumerateDevices(labelled) ==
  [i \in DOMAIN Cameras |->
     [deviceId |-> Cameras[i].deviceId,
      label |-> IF labelled THEN Cameras[i].label ELSE ""]]

\* loadDevices' choice of the default camera (lines 24-29).
defaultCamera(list) ==
  LET physical == {i \in DOMAIN list :
                     /\ list[i].label # ""
                     /\ ~LowerIncludes(list[i].label, "virtual")
                     /\ ~LowerIncludes(list[i].label, "obs")}
  IN IF physical # {}
       THEN list[CHOOSE i \in physical : \A j \in physical : i <= j].deviceId
       ELSE list[1].deviceId

RemoveAt(seq, i) == SubSeq(seq, 1, i - 1) \o SubSeq(seq, i + 1, Len(seq))

\* The initDevices effect (lines 36-47) has loadDevices as its dependency,
\* and loadDevices is re-created when selectedDevice changes: a render with a
\* new selectedDevice issues a new permission probe.
WcEffect(ops) ==
  IF wcMounted' /\ wcSelectedDevice' # wcSelectedDevice
    THEN Append(ops, [op |-> "probe", sel |-> wcSelectedDevice', stream |-> 0])
    ELSE ops

WcSt(old, new) == IF wcMounted THEN new ELSE old

WcStarts == Cardinality({i \in DOMAIN wcOps : wcOps[i].op = "start"})

\* "Start Camera": startWebcam up to `await getUserMedia` (lines 49-67).
WcStartWebcam ==
  /\ wcMounted /\ ~wcIsStreaming
  /\ Len(handles) + WcStarts < MaxHandles
  /\ wcError' = NoError
  /\ handles' = CloseHandle(handles, wcStream)
  /\ wcOps' = Append(wcOps, [op |-> "start", sel |-> wcSelectedDevice, stream |-> 0])
  /\ UNCHANGED <<wcMounted, wcIsStreaming, wcStream, wcDevices, wcSelectedDevice, wcLabels, wcDevicesLabelled>>
  /\ UNCHANGED <<live, faults>>

\* getUserMedia of startWebcam resolved (lines 69-75): the stream is kept
\* only if the <video> element still exists; then `await loadDevices()`.
WcStartGranted(i) ==
  /\ i \in DOMAIN wcOps /\ wcOps[i].op = "start"
  /\ handles' = Append(handles, [kind |-> "camera",
                                 dev |-> IF wcOps[i].sel # 0 THEN wcOps[i].sel
                                         ELSE Cameras[1].deviceId,
                                 open |-> TRUE])
  /\ wcStream' = WcSt(wcStream, Len(handles) + 1)
  /\ wcIsStreaming' = WcSt(wcIsStreaming, TRUE)
  /\ wcLabels' = TRUE
  /\ wcOps' = [wcOps EXCEPT ![i].op = "enum"]
  /\ UNCHANGED <<wcMounted, wcDevices, wcDevicesLabelled, wcSelectedDevice, wcError>>
  /\ UNCHANGED <<live, faults>>

\* getUserMedia of startWebcam rejected: the catch of lines 76-87.
WcStartRejected(i) ==
  /\ i \in DOMAIN wcOps /\ wcOps[i].op = "start"
  /\ faults < MaxFaults /\ faults' = faults + 1
  /\ \E name \in {"NotAllowedError", "NotFoundError", "NotReadableError", "AbortError"} :
       wcError' = WcSt(wcError,
                       CASE name = "NotAllowedError" -> CamDeniedMsg
                         [] name = "NotFoundError" -> CamNotFoundMsg
                         [] name = "NotReadableError" -> CamBusyMsg
                         [] OTHER -> CamFailedMsg)
  /\ wcOps' = RemoveAt(wcOps, i)
  /\ UNCHANGED <<wcMounted, wcIsStreaming, wcStream, wcDevices, wcSelectedDevice, wcLabels, wcDevicesLabelled>>
  /\ UNCHANGED <<live, handles>>

\* The probe of initDevices answered (lines 39-44): a granted stream is
\* stopped in the same continuation; loadDevices follows either way.
WcProbeAnswered(i) ==
  /\ i \in DOMAIN wcOps /\ wcOps[i].op = "probe"
  /\ \E granted \in BOOLEAN : wcLabels' = (wcLabels \/ granted)
  /\ wcOps' = [wcOps EXCEPT ![i].op = "enum"]
  /\ UNCHANGED <<wcMounted, wcIsStreaming, wcStream, wcDevices, wcDevicesLabelled>>
  /\ UNCHANGED <<wcSelectedDevice, wcError>>
  /\ UNCHANGED <<live, handles, faults>>

\* loadDevices after `await enumerateDevices()` (lines 17-34), called with
\* the selectedDevice of the render that created it.
WcEnumerated(i) ==
  /\ i \in DOMAIN wcOps /\ wcOps[i].op = "enum"
  /\ \E ok \in MayFail :
       /\ Fault(ok)
       /\ IF ok
            THEN LET videoDevices == enumerateDevices(wcLabels) IN
                   /\ wcDevices' = WcSt(wcDevices, Len(videoDevices))
                   /\ wcDevicesLabelled' = WcSt(wcDevicesLabelled, wcLabels)
                   /\ wcSelectedDevice' =
                        IF Len(videoDevices) > 0 /\ wcOps[i].sel = 0
                          THEN WcSt(wcSelectedDevice, defaultCamera(videoDevices))
                          ELSE wcSelectedDevice
                   /\ wcError' = wcError
            ELSE /\ wcError' = WcSt(wcError, LoadDevicesFailedMsg)
                 /\ UNCHANGED <<wcDevices, wcDevicesLabelled, wcSelectedDevice>>
  /\ UNCHANGED <<wcMounted, wcIsStreaming, wcStream, wcLabels>>
  /\ wcOps' = WcEffect(RemoveAt(wcOps, i))
  /\ UNCHANGED <<live, handles>>

\* "Stop": stopWebcam (lines 90-96).
WcStopWebcam ==
  /\ wcMounted /\ wcIsStreaming
  /\ IF wcStream # 0
       THEN /\ handles' = CloseHandle(handles, wcStream)
            /\ wcStream' = 0 /\ wcIsStreaming' = FALSE
       ELSE UNCHANGED <<handles, wcStream, wcIsStreaming>>
  /\ UNCHANGED <<wcMounted, wcDevices, wcSelectedDevice, wcError, wcOps, wcLabels, wcDevicesLabelled>>
  /\ UNCHANGED <<live, faults>>

\* The camera <select> (lines 123-135), rendered when devices.length > 1:
\* setSelectedDevice, and stopWebcam() when streaming.
WcSelectDevice(d) ==
  /\ wcMounted /\ wcDevices > 1 /\ d \in 1..wcDevices /\ d # wcSelectedDevice
  /\ Len(wcOps) < MaxOps
  /\ wcSelectedDevice' = d
  /\ IF wcIsStreaming /\ wcStream # 0
       THEN /\ handles' = CloseHandle(handles, wcStream)
            /\ wcStream' = 0 /\ wcIsStreaming' = FALSE
       ELSE UNCHANGED <<handles, wcStream, wcIsStreaming>>
  /\ UNCHANGED <<wcMounted, wcDevices, wcError, wcLabels, wcDevicesLabelled>>
  /\ wcOps' = WcEffect(wcOps)
  /\ UNCHANGED <<live, faults>>

\* "Capture & Analyze": captureImage up to the toBlob callback (98-107).
WcCaptureImage ==
  /\ wcMounted /\ wcIsStreaming
  /\ Len(wcOps) < MaxOps
  /\ wcOps' = Append(wcOps, [op |-> "blob", sel |-> 0, stream |-> wcStream])
  /\ UNCHANGED <<wcMounted, wcIsStreaming, wcStream, wcDevices, wcSelectedDevice, wcError, wcLabels, wcDevicesLabelled>>
  /\ UNCHANGED <<live, handles, faults>>

\* The toBlob callback (lines 107-116) with the stream of the render that
\* created captureImage.  onCapture is DeepfakePage.handleWebcamCapture,
\* whose setMode('upload') removes the component.
WcBlobCalled(i) ==
  /\ i \in DOMAIN wcOps /\ wcOps[i].op = "blob"
  /\ wcOps' = RemoveAt(wcOps, i)
  /\ \E blobOk \in MayFail :
       /\ Fault(blobOk)
       /\ IF blobOk
            THEN /\ wcMounted' = FALSE
                 /\ IF wcOps[i].stream # 0
                      THEN /\ handles' = CloseHandle(handles, wcOps[i].stream)
                           /\ wcStream' = WcSt(wcStream, 0)
                           /\ wcIsStreaming' = WcSt(wcIsStreaming, FALSE)
                      ELSE UNCHANGED <<handles, wcStream, wcIsStreaming>>
            ELSE UNCHANGED <<wcMounted, handles, wcStream, wcIsStreaming>>
  /\ UNCHANGED <<wcDevices, wcSelectedDevice, wcError, wcLabels, wcDevicesLabelled>>
  /\ UNCHANGED live

\* DeepfakePage leaves webcam mode or is navigated away from: the component
\* is removed; it registers no cleanup.
WcUnmount ==
  /\ wcMounted
  /\ wcMounted' = FALSE
  /\ UNCHANGED <<wcIsStreaming, wcStream, wcDevices, wcSelectedDevice, wcError, wcOps, wcLabels, wcDevicesLabelled>>
  /\ UNCHANGED <<live, handles, faults>>

NextCapture ==
  \/ WcStartWebcam
  \/ \E i \in DOMAIN wcOps : WcStartGranted(i)
  \/ \E i \in DOMAIN wcOps : WcStartRejected(i)
  \/ \E i \in DOMAIN wcOps : WcProbeAnswered(i)
  \/ \E i \in DOMAIN wcOps : WcEnumerated(i)
  \/ WcStopWebcam
  \/ \E d \in DOMAIN Cameras : WcSelectDevice(d)
  \/ WcCaptureImage
  \/ \E i \in DOMAIN wcOps : WcBlobCalled(i)
  \/ WcUnmount

SpecCapture == InitCapture /\ [][NextCapture]_vars

\* ------------------------------------------------------------ DeepfakePage
\* unnamed/part_006.  dfFile is the selected file by where it came from and
\* what it is; a request records the file it carried.

UploadedFiles == {"uploaded image", "uploaded video"}
WebcamFile == "webcam capture"

\* file.type.startsWith('video/') (line 69); the webcam file is image/jpeg.
isVideo(file) == file = "uploaded video"

\* Boolean.prototype.toString, as used for the is_live form field
\* (api.ts line 79).
BoolToString(b) == IF b THEN "true" ELSE "false"

\* The form analyzeImage posts (api.ts lines 75-84) and the one analyzeVideo
\* posts (lines 92-100, no is_live field).
imageForm(file, isLive) ==
  [endpoint |-> "/analyze/image", file |-> file, is_live |-> BoolToString(isLive),
   status |-> "pending"]
videoForm(file) ==
  [endpoint |-> "/analyze/video", file |-> file, is_live |-> "absent",
   status |-> "pending"]

\* handleFileSelect without the reset of isFromWebcam.
handleFileSelectKeepsFlag(selectedFile) ==
  [file |-> selectedFile, result |-> 0, isFromWebcam |-> dfIsFromWebcam]

\* handleFileSelect (lines 25-35): the state it sets.
handleFileSelect(selectedFile) ==
  [file |-> selectedFile, result |-> 0, isFromWebcam |-> FALSE]

\* DeepfakePage just mounted (lines 17-22).
InitDeepfake ==
  /\ mounted = FALSE /\ LivePageInitial /\ audioDevices = "none"
  /\ CaptureAbsent /\ DisplayAbsent /\ DeepfakeAbsent
  /\ faults = 0 /\ handles = <<>>

\* The buttons "Upload File" and "Use Webcam" (lines 102-115).
DfSetMode(m) ==
  /\ dfMode # m
  /\ dfMode' = m
  /\ UNCHANGED <<dfFile, dfIsFromWebcam, dfLoading, dfResult, dfReqs, dfCaptures>>
  /\ UNCHANGED <<livePage, capture, display>>

\* A file chosen or dropped in the upload zone (rendered in upload mode,
\* disabled while loading: line 131).
DfFileSelect(f) ==
  /\ dfMode = "upload" /\ ~dfLoading /\ f \in UploadedFiles
  /\ LET st == handleFileSelect(f) IN
       /\ dfFile' = st.file /\ dfResult' = st.result
       /\ dfIsFromWebcam' = st.isFromWebcam
  /\ UNCHANGED <<dfMode, dfLoading, dfReqs, dfCaptures>>
  /\ UNCHANGED <<livePage, capture, display>>

\* "Capture" in the WebcamCapture of webcam mode: captureImage has called
\* canvas.toBlob (WebcamCapture.tsx lines 98-107).
DfCaptureClick ==
  /\ dfMode = "webcam" /\ dfCaptures < MaxOps
  /\ dfCaptures' = dfCaptures + 1
  /\ UNCHANGED <<dfMode, dfFile, dfIsFromWebcam, dfLoading, dfResult, dfReqs>>
  /\ UNCHANGED <<livePage, capture, display>>

\* The toBlob callback: onCapture(blob) is handleWebcamCapture (lines
\* 37-50); a null blob is dropped (WebcamCapture.tsx line 108).  The
\* callback also arrives after the page has left webcam mode.
DfWebcamCapture ==
  /\ dfCaptures > 0
  /\ dfCaptures' = dfCaptures - 1
  /\ \E blobOk \in BOOLEAN :
       IF blobOk
         THEN /\ dfFile' = WebcamFile /\ dfResult' = 0
              /\ dfIsFromWebcam' = TRUE /\ dfMode' = "upload"
         ELSE UNCHANGED <<dfFile, dfResult, dfIsFromWebcam, dfMode>>
  /\ UNCHANGED <<dfLoading, dfReqs>>
  /\ UNCHANGED <<livePage, capture, display>>

\* handleClearPreview (lines 52-57), from the preview of the upload zone.
DfClearPreview ==
  /\ dfMode = "upload" /\ ~dfLoading /\ dfFile # "null"
  /\ dfFile' = "null" /\ dfResult' = 0 /\ dfIsFromWebcam' = FALSE
  /\ UNCHANGED <<dfMode, dfLoading, dfReqs, dfCaptures>>
  /\ UNCHANGED <<livePage, capture, display>>

\* "Analyze for Deepfakes" (shown under the condition of line 141):
\* handleAnalyze up to its await (lines 59-72).
DfAnalyze ==
  /\ dfFile # "null" /\ ~dfLoading /\ dfResult = 0 /\ dfMode = "upload"
  /\ Len(dfReqs) < MaxReq
  /\ dfLoading' = TRUE /\ dfResult' = 0
  /\ dfReqs' = Append(dfReqs, IF isVideo(dfFile) THEN videoForm(dfFile)
                                ELSE imageForm(dfFile, dfIsFromWebcam))
  /\ UNCHANGED <<dfMode, dfFile, dfIsFromWebcam, dfCaptures>>
  /\ UNCHANGED <<livePage, capture, display>>

\* The request settles: lines 74-80.
DfSettle(i) ==
  /\ i \in Pending(dfReqs)
  /\ \E ok \in BOOLEAN :
       /\ dfReqs' = [dfReqs EXCEPT ![i].status = IF ok THEN "fulfilled" ELSE "failed"]
       /\ dfResult' = IF ok THEN i ELSE dfResult
  /\ dfLoading' = FALSE
  /\ UNCHANGED <<dfMode, dfFile, dfIsFromWebcam, dfCaptures>>
  /\ UNCHANGED <<livePage, capture, display>>

NextDeepfake ==
  \/ \E m \in {"upload", "webcam"} : DfSetMode(m)
  \/ \E f \in UploadedFiles : DfFileSelect(f)
  \/ DfCaptureClick
  \/ DfWebcamCapture
  \/ DfClearPreview
  \/ DfAnalyze
  \/ \E i \in DOMAIN dfReqs : DfSettle(i)

SpecDeepfake == InitDeepfake /\ [][NextDeepfake]_vars

\* ------------------------------------------------- a response on display
\* What the pages do with the body of a 2xx response: api.ts returns
\* response.data as it came (lines 81-86), the page stores it with
\* setResult, AnalysisResult (LivePage, StaticPage) or ResultPanel
\* (DeepfakePage, VoicePage) renders it.

Bands == {"Low", "Medium", "High"}

\* risk_score and confidence in hundredths.
Scores == {0, 29, 30, 50, 69, 70, 85, 100}

\* JSON bodies a 2xx response can carry: an object whose fields are present
\* with the declared type, absent, or of another type; an empty body; a
\* body that is not JSON (axios hands it over as a string).
Bodies ==
  [shape : {"object"},
   risk_score : {Num(n) : n \in Scores} \cup {Undefined, NotNum},
   prediction : Bands \cup {"Critical", "missing", "object"},
   confidence : {Num(90), Undefined},
   explanation : {"text", "missing", "object"}]
  \cup {[NoBody EXCEPT !.shape = "empty"], [NoBody EXCEPT !.shape = "html"]}

\* `result && ...` (LivePage line 461, DeepfakePage line 177).
Truthy(res) == res.shape \in {"object", "html"}

\* React refuses a plain object as a child: rendering throws.
Renderable(field) == field # "object"

\* The band the documented thresholds give a score: Low below 0.30, Medium
\* from 0.30 up to but excluding 0.70, High from 0.70.
ThresholdBand(score) ==
  IF score.value < 30 THEN "Low" ELSE IF score.value < 70 THEN "Medium" ELSE "High"

\* The heading with the band derived from risk_score instead of taken from
\* the response.
predictionShownFromScore(res) ==
  IF res.risk_score.type = "number" THEN ThresholdBand(res.risk_score) ELSE ""

\* `{result.prediction} Risk` (AnalysisResult line 43, ResultPanel 61).
predictionShown(res) == IF res.prediction = "missing" THEN "" ELSE res.prediction

\* getRiskColor (AnalysisResult 13-24), getRiskConfig().color (ResultPanel
\* 11-46).
getRiskColor(panel, prediction) ==
  CASE prediction = "Low" -> "green"
    [] prediction = "Medium" -> "yellow"
    [] prediction = "High" -> "red"
    [] OTHER -> IF panel = "AnalysisResult" THEN "gray" ELSE "neutral"

\* The colour of the risk bar: AnalysisResult lines 51-54, ResultPanel
\* config.progressColor.
barColor(panel, prediction) ==
  IF panel = "AnalysisResult"
    THEN CASE prediction = "Low" -> "green"
           [] prediction = "Medium" -> "yellow"
           [] OTHER -> "red"
    ELSE getRiskColor(panel, prediction)

\* (risk_score * 100).toFixed(1): a number stays, anything else is NaN.
riskPercentage(res) == IF res.risk_score.type = "number" THEN res.risk_score ELSE NaN

\* The result area after a render with result state res.
renderResult(panel, res) ==
  IF ~Truthy(res) THEN [NoView EXCEPT !.status = "hidden"]
  ELSE IF ~Renderable(res.prediction) \/ ~Renderable(res.explanation)
    THEN [NoView EXCEPT !.status = "crashed"]
  ELSE [status |-> "shown",
        label |-> predictionShown(res),
        color |-> getRiskColor(panel, res.prediction),
        bar |-> barColor(panel, res.prediction),
        width |-> riskPercentage(res)]

\* A 2xx response has arrived for one of the pages.
InitDisplay ==
  /\ mounted = FALSE /\ LivePageInitial /\ audioDevices = "none"
  /\ CaptureAbsent /\ DeepfakeAbsent
  /\ faults = 0 /\ handles = <<>>
  /\ rsPanel \in {"AnalysisResult", "ResultPanel"}
  /\ rsBody \in Bodies
  /\ rsResult = NoBody /\ rsView = NoView /\ rsLog = {}

\* `const response = await analyzeX(file); setResult(response)`: captureFrame
\* of LivePage (lines 181-184, with its console.log of the response), which
\* shows results with AnalysisResult; handleAnalyze of DeepfakePage (part_006
\* lines 70-74), which shows them with ResultPanel.  The state change makes
\* a render due.
ApplyResponse ==
  /\ rsPanel # "none" /\ rsView = NoView
  /\ rsResult' = rsBody
  /\ rsLog' = IF rsPanel = "AnalysisResult" THEN rsLog \cup {"Analysis complete"}
             ELSE rsLog
  /\ rsView' = [NoView EXCEPT !.status = "due"]
  /\ UNCHANGED <<rsPanel, rsBody>>
  /\ UNCHANGED <<livePage, capture, deepfake>>

\* The render that follows: `{result && <AnalysisResult result={result} />}`
\* (LivePage lines 461-465), `{result && !loading && <ResultPanel ... />}`
\* (DeepfakePage line 177).  An exception thrown while rendering is caught
\* by the ErrorBoundary around the routes, which replaces the page.
RenderResult ==
  /\ rsView.status = "due"
  /\ rsView' = renderResult(rsPanel, rsResult)
  /\ UNCHANGED <<rsPanel, rsBody, rsResult, rsLog>>
  /\ UNCHANGED <<livePage, capture, deepfake>>

\* The page is used again: the next analysis starts with setResult(null).
ClearResult ==
  /\ rsView.status \in {"shown", "hidden"} /\ rsResult # NoBody
  /\ rsResult' = NoBody /\ rsView' = [NoView EXCEPT !.status = "hidden"]
  /\ UNCHANGED <<rsPanel, rsBody, rsLog>>
  /\ UNCHANGED <<livePage, capture, deepfake>>

NextDisplay ==
  \/ ApplyResponse
  \/ RenderResult
  \/ ClearResult

SpecDisplay == InitDisplay /\ [][NextDisplay]_vars

TypeOK ==
  /\ mounted \in BOOLEAN /\ loading \in BOOLEAN
  /\ mode \in {"webcam", "voice"}
  /\ result \in 0..MaxReq
  /\ Len(reqs) <= MaxReq /\ Len(handles) <= MaxHandles
  /\ recordingTime \in 0..(AutoStopTicks + 1)

\* ================================================================ claims

ImagePending == {i \in Pending(reqs) : reqs[i].kind = "image"}
AudioPending == {i \in Pending(reqs) : reqs[i].kind = "audio"}

\* C1: whenever a response is written to the displayed result, it is the
\* response of the last request submitted so far; the response of a request
\* that has been superseded is never applied.
C1_OnlyLastApplied ==
  [][(result' # result /\ result' # 0) => result' = Len(reqs)]_vars

\* C2: at most one analysis request is pending per session (the camera
\* session's image requests, the microphone session's audio requests).
C2_OnePendingPerSession ==
  Cardinality(ImagePending) <= 1 /\ Cardinality(AudioPending) <= 1

\* C3: a step that releases the webcam session (Stop Webcam, the mode
\* change to voice, teardown) leaves no camera stream open: every stream
\* opened so far is closed.
C3_ReleaseClosesAll ==
  [][(StopWebcam \/ SelectVoiceMode \/ Unmount)
       => \A h \in DOMAIN handles' : handles'[h].kind = "camera" => ~handles'[h].open]_vars

\* C4: once LivePage is torn down and the acquisitions that were in flight
\* have been answered, no camera stream is open.
C4_TeardownReleases ==
  (~mounted /\ gumCam = 0) => OpenHandles("camera") = {}

\* C5: at most one camera stream and at most one microphone stream is open.
C5_OneHandlePerKind ==
  Cardinality(OpenHandles("camera")) <= 1 /\ Cardinality(OpenHandles("microphone")) <= 1

\* C6: no analysis request carries an empty payload.
C6_NoEmptySubmission ==
  \A i \in DOMAIN reqs : ~reqs[i].empty

\* C7: changing the selected camera while streaming ends with the component
\* streaming again on exactly one open stream, that of the newly selected
\* camera.
C7_SwitchKeepsStreaming ==
  [][\A d \in DOMAIN Cameras :
       (wcIsStreaming /\ WcSelectDevice(d))
         => /\ wcIsStreaming'
            /\ Cardinality({h \in DOMAIN handles' : handles'[h].open}) = 1
            /\ wcStream' # 0 /\ handles'[wcStream'].dev = d]_vars

\* C8: when a request ends by the 60 s timeout, the error shown by the page
\* is the timeout message.
C8_TimeoutReported ==
  [][\A i \in DOMAIN reqs : (mounted /\ SettleWith(i, "timeout")) => error' = TimeoutMsg]_vars

\* C9: once every issued request has settled and no capture is being
\* encoded, the loading flag is false, whatever the outcomes were.
C9_NoStuckLoading ==
  (mounted /\ Pending(reqs) = {} /\ blobPending = 0) => ~loading

\* A request has failed, nothing is in flight, loading is back to false and
\* the capture button is enabled again.
C9_Witness ==
  /\ mounted /\ Pending(reqs) = {} /\ blobPending = 0
  /\ \E i \in DOMAIN reqs : reqs[i].status = "failed"
  /\ error = RequestFailedMsg
  /\ ~loading /\ mode = "webcam" /\ webcamActive /\ webcamReady

\* C10: the settling of a cancelled request leaves the page's error
\* message as it was.
C10_CancelSilent ==
  [][\A i \in DOMAIN reqs : (mounted /\ SettleWith(i, "cancel")) => error' = error]_vars

\* C11: every failure other than a cancellation leaves a message on the
\* page: the step in which an operation of the mounted page fails ends with
\* an error message displayed.
C11_FailureShowsMessage ==
  [][(mounted /\ faults' = faults + 1) => error' # NoError]_vars

\* The shape declared by the AnalysisResponse type.
WellFormed(res) ==
  /\ res.shape = "object"
  /\ res.risk_score.type = "number" /\ res.confidence.type = "number"
  /\ res.prediction \in Bands /\ res.explanation = "text"

\* C12: a 2xx body that is not a well-formed analysis result is never held
\* as the current result, and displaying a result never throws.
C12_MalformedRejected ==
  /\ rsResult # NoBody => WellFormed(rsResult)
  /\ rsView.status # "crashed"

Mismatch(res) == WellFormed(res) /\ res.prediction # ThresholdBand(res.risk_score)

\* C13: a well-formed response whose band disagrees with the thresholds is
\* applied with a mismatch recorded among the diagnostics; one whose band
\* agrees is applied with none recorded.
C13_MismatchRecorded ==
  (rsView.status \in {"due", "shown"} /\ WellFormed(rsBody))
    => /\ rsResult = rsBody
       /\ ("band mismatch" \in rsLog) <=> Mismatch(rsBody)

\* C14: the band stored and displayed for an applied result is the
\* prediction of the response, whatever its risk_score.
C14_BandAsSent ==
  /\ (rsResult # NoBody /\ rsBody.prediction \in Bands)
       => rsResult.prediction = rsBody.prediction
  /\ (rsView.status = "shown" /\ rsBody.prediction \in Bands)
       => /\ rsView.label = rsBody.prediction
          /\ rsView.color = (CASE rsBody.prediction = "Low" -> "green"
                                [] rsBody.prediction = "Medium" -> "yellow"
                                [] OTHER -> "red")

\* "Low" displayed in green for a response with risk_score 0.50.
C14_Witness ==
  /\ rsView.status = "shown" /\ rsView.label = "Low" /\ rsView.color = "green"
  /\ rsBody.prediction = "Low" /\ rsBody.risk_score = Num(50)
  /\ rsResult = rsBody

\* The steps of the microphone session and of the camera session.
VoiceStep ==
  \/ StartRecording \/ GumMicResolve \/ GumMicUnsupported \/ GumMicReject
  \/ StopRecordingClick
  \/ \E i \in intervals : IntervalTick(i)
  \/ \E t \in timeouts : TimeoutFire(t)
  \/ \E r \in DOMAIN recorders : RecorderStopEvent(r)
  \/ \E i \in AudioPending : Settle(i)

CameraStep ==
  \/ StartWebcam \/ GumCamResolve \/ GumCamReject \/ StopWebcam
  \/ VideoLoadedMetadata \/ ReadyTimer \/ CaptureFrame \/ BlobDone
  \/ \E i \in ImagePending : Settle(i)

\* The result on display, when it is a result of the given session.
SessionResult(kind) == IF result # 0 /\ reqs[result].kind = kind THEN result ELSE 0

BothOpen == OpenHandles("camera") # {} /\ OpenHandles("microphone") # {}

\* C15: while a camera stream and a microphone stream are both open, a step
\* of one session leaves the other session's stream, its pending requests
\* and its applied result as they were.
C15_SessionsIndependent ==
  [][BothOpen =>
       /\ VoiceStep => /\ OpenHandles("camera")' = OpenHandles("camera")
                       /\ ImagePending' = ImagePending
                       /\ SessionResult("image")' = SessionResult("image")
       /\ CameraStep => /\ OpenHandles("microphone")' = OpenHandles("microphone")
                        /\ AudioPending' = AudioPending
                        /\ SessionResult("audio")' = SessionResult("audio")]_vars

\* C16: a request writes the displayed result at most once, in the step in
\* which it is fulfilled: a request that has been fulfilled or has failed
\* never writes it (again).
C16_OneApplicationPerRequest ==
  [][\A i \in DOMAIN reqs :
       /\ (result' = i /\ result # i)
            => reqs[i].status = "pending" /\ reqs'[i].status = "fulfilled"
       /\ (reqs[i].status = "pending" /\ reqs'[i].status = "failed")
            => result' = result
       /\ reqs[i].status # "pending" => reqs'[i].status = reqs[i].status]_vars

\* The second of two requests has been fulfilled and its result is shown;
\* the first has failed.
C16_Witness ==
  /\ Len(reqs) >= 2 /\ result = 2
  /\ reqs[1].status = "failed" /\ reqs[2].status = "fulfilled"

\* C17: when a request ends with a non-2xx response that carries a detail
\* message, the error shown by the page is that message, unmodified.
C17_DetailVerbatim ==
  [][\A i \in DOMAIN reqs :
       (mounted /\ SettleWith(i, "http_detail")) => error' = ServerDetail]_vars

\* A request has failed and the page shows the server's detail message.
C17_Witness ==
  /\ mounted /\ error = ServerDetail
  /\ \E i \in DOMAIN reqs : reqs[i].status = "failed"

\* C18: an image analysis request carries is_live "true" exactly when the
\* image it carries was captured from the webcam; an uploaded image goes
\* with is_live "false".
C18_IsLiveIffWebcam ==
  \A i \in DOMAIN dfReqs :
    dfReqs[i].endpoint = "/analyze/image"
      => /\ dfReqs[i].is_live \in {"true", "false"}
         /\ dfReqs[i].is_live = "true" <=> dfReqs[i].file = WebcamFile

\* A webcam frame was sent with is_live true, then an uploaded image with
\* is_live false.
C18_Witness ==
  /\ Len(dfReqs) >= 2
  /\ dfReqs[1].file = WebcamFile /\ dfReqs[1].is_live = "true"
  /\ dfReqs[2].file = "uploaded image" /\ dfReqs[2].is_live = "false"

\* The analysis requests submitted for recording r.
Submissions(r) == {i \in DOMAIN reqs : reqs[i].kind = "audio" /\ reqs[i].rec = r}

\* C19: a recording is never submitted twice, and once its 4 s timeout has
\* fired and the events of its recorder have been handled it has been
\* submitted exactly once.
C19_OneSubmissionPerRecording ==
  \A r \in DOMAIN recorders :
    /\ Cardinality(Submissions(r)) <= 1
    /\ (r \notin timeouts /\ ~recorders[r].stopQueued)
         => Cardinality(Submissions(r)) = 1

\* C20: once the 4 s timeout of a recording has fired, its recorder is no
\* longer recording.
C20_AutoStopAtCeiling ==
  \A r \in DOMAIN recorders :
    r \notin timeouts => recorders[r].state # "recording"

\* C21: when the one acquisition in flight settles after the selection was
\* changed under it, the component ends up streaming from the device that
\* is selected now.
C21_SwitchDuringAcquire ==
  [][\A i \in DOMAIN wcOps :
       (/\ wcMounted /\ WcStarts = 1
        /\ wcOps[i].sel # 0 /\ wcSelectedDevice # wcOps[i].sel
        /\ WcStartGranted(i))
         => /\ wcStream' # 0
            /\ handles'[wcStream'].dev = wcSelectedDevice']_vars

\* C22: the step that stops a recording closes the microphone stream of
\* that recording.
C22_StopClosesTracks ==
  [][\A r \in DOMAIN recorders :
       (recorders[r].state = "recording" /\ recorders'[r].state = "inactive")
         => ~handles'[recorders[r].stream].open]_vars

\* The steps in which a camera acquisition or a frame capture fails, and
\* those in which a microphone acquisition fails.
CameraFailure ==
  /\ faults' = faults + 1
  /\ GumCamReject \/ VideoLoadedMetadata \/ ReadyTimer \/ CaptureFrame \/ BlobDone

MicrophoneFailure ==
  /\ faults' = faults + 1
  /\ GumMicReject \/ GumMicUnsupported

\* The microphone streams that belong to no recorder.
StrayMicrophones ==
  {h \in OpenHandles("microphone") : \A r \in DOMAIN recorders : recorders[r].stream # h}

\* C23: a step in which a device acquisition or a capture fails leaves the
\* session reset: after a camera failure the webcam is not active and no
\* camera stream is open, after a microphone failure no microphone stream
\* is open outside a running recording.
C23_FailureResetsSession ==
  [][/\ CameraFailure => (~webcamActive' /\ OpenHandles("camera")' = {})
     /\ MicrophoneFailure => StrayMicrophones' = {}]_vars

\* The streams in use: the webcam stream and the streams being recorded.
StreamsInUse ==
  {h \in DOMAIN handles :
     /\ handles[h].open
     /\ \/ h = streamRef
        \/ \E r \in DOMAIN recorders :
             recorders[r].state = "recording" /\ recorders[r].stream = h}

ImageRequests == {i \in DOMAIN reqs : reqs[i].kind = "image"}

C26_DefaultReselected ==
  [][\A i \in DOMAIN wcOps :
       (/\ wcMounted /\ WcEnumerated(i)
        /\ ~wcDevicesLabelled /\ wcDevicesLabelled')
          => wcSelectedDevice' = defaultCamera(enumerateDevices(TRUE))]_vars

\* C27: a result on display on DeepfakePage is the response to the request
\* that carried the file now selected.
C27_ResultOfCurrentInput ==
  dfResult # 0 => (dfFile # "null" /\ dfReqs[dfResult].file = dfFile)

\* C28: on the mounted LivePage the loading flag is set whenever a request
\* is in flight, also when an image and an audio request overlap.
C28_LoadingWhilePending ==
  (mounted /\ Pending(reqs) # {}) => loading

\* C29: the interval and the timeout armed at the start of a recording stop
\* no other recording than that one.
C29_TimerStopsOwnRecording ==
  [][\A t \in DOMAIN recorders :
       (TimeoutFire(t) \/ IntervalTick(t))
         => \A r \in DOMAIN recorders :
              (recorders[r].state = "recording" /\ recorders'[r].state = "inactive")
                => r = t]_vars

\* C30: once LivePage is unmounted no analysis request is submitted.
C30_NoRequestAfterUnmount ==
  [][~mounted => reqs' = reqs]_vars

====
